---- MODULE Spec2Model ----
(***************************************************************************)
(* The LRU cache of titoffon/lru-cache-service (internal/cache/cache.go):  *)
(* a map from keys to list nodes plus a doubly linked recency list whose   *)
(* ends are c.right (most recently used) and c.left (least recently used). *)
(* Nodes are heap objects addressed by pointers; the heap is a function    *)
(* from node addresses to node records.  Every public method is one        *)
(* action: it runs under the cache's mutex, so its body is atomic.         *)
(* The HTTP handlers of package server are actions that                   *)
(* validate a request, call one method of the cache and answer.            *)
(***************************************************************************)
EXTENDS Integers, Sequences, FiniteSets, TLC

\* ------------------------------------------------------------ bounds

\* The largest capacity of a cache whose callers let time pass (Spec).
MaxCapacity == 2
\* The largest capacity of a cache whose callers act at one instant (SpecRecency).
MaxRecencyCapacity == 3
\* The clock runs from 0 to MaxTime.
MaxTime == 2
\* The history counts the Puts since a key's last touch up to MaxSince.
MaxSince == MaxRecencyCapacity - 1

\* The keys and values callers use.
Keys == {"A", "B", "C", "D"}
Values == {"v1", "v2"}
\* The default TTLs NewLRUCache is called with (it accepts any duration,
\* non-positive ones included), and the ttl arguments of Put.
DefaultTTLs == {-1, 2}
TTLs == {-1, 0, 1}

\* Spec: three keys, the first of them put with either value; capacities from
\* -1 (NewLRUCache accepts any int) up.
TimedKeys == {"A", "B", "C"}
TimedPuts == {<<"A", "v1">>, <<"A", "v2">>, <<"B", "v1">>, <<"C", "v2">>}
Capacities == -1 .. MaxCapacity

\* SpecRecency: four keys, each with its own value, put without a ttl (0) or
\* with one.
RecencyPuts == {<<"A", "v1">>, <<"B", "v2">>, <<"C", "v1">>, <<"D", "v2">>}
RecencyTTLs == {0, 1}
RecencyCapacities == -1 .. MaxRecencyCapacity

\* SpecFate: two keys that are put, without a ttl, and a third that never is.
FatePuts == {<<"A", "v1">>, <<"B", "v2">>}
FateKeys == {"A", "B", "C"}

\* ------------------------------------------------------------ values

\* The nil pointer.
NIL == <<"nil", 0>>
\* Node addresses: a node allocated for key k is the first of <<k, 0>>,
\* <<k, 1>> that no live pointer refers to.
Nodes == Keys \X {0, 1}

ErrKeyNotFound == "key not found"
NoErr == "nil"
\* The nil interface{} value and the zero time.Time Get returns with an error.
NilValue == "nil"
ZeroTime == -100
\* Placeholders of the call record for arguments an operation does not have.
NoKey == "-"
NoTime == ZeroTime - 100

VARIABLES
    cfg,         \* what ReadConfig read and returned, when main built the cache
    capacity,    \* c.capacity
    defaultTTL,  \* c.defaultTTL
    cache,       \* c.cache: map[string]*ListNode, a function on the keys present
    left,        \* c.left: the least recently used node, or NIL
    right,       \* c.right: the most recently used node, or NIL
    heap,        \* the ListNode objects (with their item) that are reachable
    now,         \* the clock time.Now() reads
    last,        \* the last call: its arguments, what it returned and what it found
    touched,     \* history: the keys in the map, the most recently touched first
    stored,      \* history: for each key in the map, what its most recent Put stored
    fate,        \* history, kept when tracking: what last happened to each key
    tracking,    \* whether this behaviour keeps fate and since
    since,       \* history, kept when tracking: the touches since each key's last touch
    http,        \* the last HTTP exchange: the handler, its request and its answer
    pc,          \* for each goroutine, where it is in its call of a cache method
    call,        \* for each goroutine, the method it called and its arguments
    mu,          \* c.mu: the sync.RWMutex of the cache
    local,       \* for each goroutine, the fields of the cache as its body read them
    ret,         \* for each goroutine, what its call is about to return
    lin          \* history: the cache and the results of the calls run one at a time

vars == <<cfg, capacity, defaultTTL, cache, left, right, heap, now, last,
          touched, stored, fate, tracking, since, http, pc, call, mu, local, ret, lin>>

\* The cache, its clock and its history: what a call of a cache method is about.
engine == <<cfg, capacity, defaultTTL, cache, left, right, heap, now, last,
            touched, stored, fate, tracking, since>>

\* The goroutines that call the cache concurrently.
threads == <<pc, call, mu, local, ret, lin>>

\* What lies around the cache: the HTTP server and the goroutines.
callers == <<http, pc, call, mu, local, ret, lin>>

\* The history variables.
history == <<touched, stored, fate, tracking, since>>

\* The fields of *LRUCache the helper methods read and write.
Store == [cache |-> cache, left |-> left, right |-> right, heap |-> heap]

\* ------------------------------------------------------------ helpers

Range(f) == {f[x] : x \in DOMAIN f}

\* delete(m, key) of a Go map.
MapDelete(m, key) == [x \in (DOMAIN m) \ {key} |-> m[x]]

\* m[key] = node of a Go map.
MapSet(m, key, node) == [x \in (DOMAIN m) \cup {key} |-> IF x = key THEN node ELSE m[x]]

\* A removeNode that leaves c.right alone when the node is the first of the list.
removeNodeKeepsRight(S, node) ==
    LET p == S.heap[node].prev
        S1 == IF p # NIL
              THEN [S EXCEPT !.heap[p].next = S.heap[node].next]
              ELSE S
        n == S1.heap[node].next
    IN  IF n # NIL
        THEN [S1 EXCEPT !.heap[n].prev = S1.heap[node].prev]
        ELSE [S1 EXCEPT !.left = S1.heap[node].prev]

\* func (c *LRUCache) removeNode(node *ListNode)
removeNode(S, node) ==
    LET p == S.heap[node].prev
        S1 == IF p # NIL
              THEN [S EXCEPT !.heap[p].next = S.heap[node].next]
              ELSE [S EXCEPT !.right = S.heap[node].next]
        n == S1.heap[node].next
    IN  IF n # NIL
        THEN [S1 EXCEPT !.heap[n].prev = S1.heap[node].prev]
        ELSE [S1 EXCEPT !.left = S1.heap[node].prev]

\* An addToFront that does not set the prev link of the node that was first.
addToFrontNoBackLink(S, node) ==
    LET S1 == [S EXCEPT !.heap[node].prev = NIL, !.heap[node].next = S.right]
        S3 == [S1 EXCEPT !.right = node]
    IN  IF S3.left = NIL THEN [S3 EXCEPT !.left = node] ELSE S3

\* func (c *LRUCache) addToFront(node *ListNode)
addToFront(S, node) ==
    LET S1 == [S EXCEPT !.heap[node].prev = NIL, !.heap[node].next = S.right]
        S2 == IF S1.right # NIL
              THEN [S1 EXCEPT !.heap[S1.right].prev = node]
              ELSE S1
        S3 == [S2 EXCEPT !.right = node]
    IN  IF S3.left = NIL THEN [S3 EXCEPT !.left = node] ELSE S3

\* A moveToFront that leaves the node where it is.
moveToFrontKeepsPlace(S, node) == S

\* func (c *LRUCache) moveToFront(node *ListNode)
moveToFront(S, node) ==
    IF node = S.right THEN S ELSE addToFront(removeNode(S, node), node)

\* An eviction that takes the node at the most recent end, c.right.
removeMostUsed(S) ==
    IF S.right = NIL
    THEN S
    ELSE LET oldRight == S.right
             S1 == removeNode(S, oldRight)
         IN  [S1 EXCEPT !.cache = MapDelete(S1.cache, S1.heap[oldRight].key)]

\* func (c *LRUCache) removeLeastUsed()
removeLeastUsed(S) ==
    IF S.left = NIL
    THEN S
    ELSE LET oldLeft == S.left
             S1 == removeNode(S, oldLeft)
         IN  [S1 EXCEPT !.cache = MapDelete(S1.cache, S1.heap[oldLeft].key)]

\* ------------------------------------------------------------ the heap

\* The nodes a pointer of the cache leads to: the map's values and the two
\* ends, then everything their prev and next links reach.
RECURSIVE Closure(_, _)
Closure(h, set) ==
    LET more == set \cup (({h[n].prev : n \in set} \cup {h[n].next : n \in set}) \ {NIL})
    IN  IF more = set THEN set ELSE Closure(h, more)

Reachable(S) == Closure(S.heap, (Range(S.cache) \cup {S.left, S.right}) \ {NIL})

\* Go's garbage collector: a node no pointer leads to is gone.
Collect(S) == [S EXCEPT !.heap = [n \in Reachable(S) |-> S.heap[n]]]

\* The address &ListNode{...} returns for a node of this key: one that no
\* live pointer refers to.
NewNode(S, key) == IF <<key, 0>> \notin Reachable(S) THEN <<key, 0>> ELSE <<key, 1>>

\* newNode := &ListNode{data: &item{key, value, expiresAt}}
Allocate(S, node, key, value, expiresAt) ==
    [S EXCEPT !.heap = [n \in (DOMAIN S.heap) \cup {node} |->
        IF n = node
        THEN [key |-> key, value |-> value, expiresAt |-> expiresAt,
              prev |-> NIL, next |-> NIL]
        ELSE S.heap[n]]]

\* ------------------------------------------------------------ the clock tests

\* A default that replaces only a negative ttl.
EffectiveTTLNegativeOnly(ttl, dflt) == IF ttl < 0 THEN dflt ELSE ttl

\* Put: if ttl <= 0 { ttl = c.defaultTTL }
EffectiveTTL(ttl, dflt) == IF ttl <= 0 THEN dflt ELSE ttl

\* Get: time.Now().After(node.data.expiresAt)
GetExpired(t, expiresAt) == t > expiresAt

\* A test that still counts an entry at the instant of its expiry.
GetAllLiveAtExpiry(t, expiresAt) == t <= expiresAt

\* GetAll: time.Now().Before(current.data.expiresAt)
GetAllLive(t, expiresAt) == t < expiresAt

\* A capacity test that lets the map grow one past the capacity.
AtCapacityOffByOne(n, cap) == n > cap

\* Put: len(c.cache) >= c.capacity
AtCapacity(n, cap) == n >= cap

\* ------------------------------------------------------------ the call record

Call(op, key, value, ttl, err, val, exp, keys, values, foundExp, removed) ==
    [op |-> op, key |-> key, value |-> value, ttl |-> ttl,
     err |-> err, val |-> val, exp |-> exp, keys |-> keys, values |-> values,
     foundExp |-> foundExp, removed |-> removed, leastExp |-> NoTime]

\* What the call found under its key in the map: the entry's expiresAt, or
\* NoTime when the key was not in the map.
FoundExp(S, key) ==
    IF key \in DOMAIN S.cache THEN S.heap[S.cache[key]].expiresAt ELSE NoTime

\* What a Put that has to evict found at the least recent end: that entry's
\* expiresAt, or NoTime when the Put evicts nothing.
LeastExp(S, key, cap) ==
    IF key \notin DOMAIN S.cache /\ AtCapacity(Cardinality(DOMAIN S.cache), cap)
       /\ S.left # NIL
    THEN S.heap[S.left].expiresAt
    ELSE NoTime

\* The keys the call removed from the map.
Removed(S, T) == (DOMAIN S.cache) \ (DOMAIN T.cache)

\* A counter that stops at its bound.
UpTo(n, bound) == IF n > bound THEN bound ELSE n

\* The history of touches after a call on key that left the keys dom in the
\* map: a Put or a successful Get of key is a touch and puts it first; a key
\* that left the map leaves the history.
TouchedAfter(seq, dom, key, touch) ==
    IF touch
    THEN <<key>> \o SelectSeq(seq, LAMBDA x : x \in dom /\ x # key)
    ELSE SelectSeq(seq, LAMBDA x : x \in dom)

\* The history after the call op on key that returned err and left store T.
\* stored: what a Put(key, value, ttl) at time t is to store is value with
\* the expiry t + ttl, or t + defaultTTL when ttl is not positive.
\* fate: a key is "never" put, then "put" by its last Put or "evicted" by its
\* last successful Evict, whichever came last.
\* since: for each key in the map, the touches of other keys since its own
\* last touch: new, the number of Puts of keys that were not in the map,
\* counted up to MaxSince, and old, whether a key that was in the map has
\* been put or got.
History(op, key, value, ttl, err, T) ==
    /\ touched' = TouchedAfter(touched, DOMAIN T.cache, key,
                               op = "Put" \/ (op = "Get" /\ err = NoErr))
    /\ stored' = [k \in DOMAIN T.cache |->
                    IF op = "Put" /\ k = key
                    THEN [value |-> value,
                          expiresAt |-> now + (IF ttl > 0 THEN ttl ELSE defaultTTL)]
                    ELSE IF k \in DOMAIN stored
                         THEN stored[k]
                         ELSE [value |-> NilValue, expiresAt |-> NoTime]]
    /\ fate' = IF ~tracking THEN fate
               ELSE IF op = "Put" THEN [fate EXCEPT ![key] = "put"]
               ELSE IF op = "Evict" /\ err = NoErr THEN [fate EXCEPT ![key] = "evicted"]
               ELSE fate
    /\ tracking' = tracking
    /\ since' = IF ~tracking THEN since
                ELSE LET touch == op = "Put" \/ (op = "Get" /\ err = NoErr)
                         fresh == key \notin DOMAIN cache
                     IN  [k \in DOMAIN T.cache |->
                            IF (touch /\ k = key) \/ k \notin DOMAIN since
                            THEN [new |-> 0, old |-> FALSE]
                            ELSE IF touch /\ fresh
                            THEN [since[k] EXCEPT !.new = UpTo(@ + 1, MaxSince)]
                            ELSE IF touch
                            THEN [since[k] EXCEPT !.old = TRUE]
                            ELSE since[k]]

\* The fields of the cache take the values of store T.
Becomes(T) ==
    /\ cache' = T.cache
    /\ left' = T.left
    /\ right' = T.right
    /\ heap' = T.heap

\* ------------------------------------------------------------ Put

\* An update that keeps the later of the old and the new expiry.
PutUpdateMergesExpiry(S, key, value, expiresAt) ==
    LET node == S.cache[key]
        old == S.heap[node].expiresAt
        S1 == [S EXCEPT !.heap[node].value = value,
                        !.heap[node].expiresAt = IF old > expiresAt THEN old ELSE expiresAt]
    IN  moveToFront(S1, node)

\* An update that overwrites value and expiresAt and leaves the node in its
\* place in the list.
PutUpdateKeepsPlace(S, key, value, expiresAt) ==
    LET node == S.cache[key]
    IN  [S EXCEPT !.heap[node].value = value,
                  !.heap[node].expiresAt = expiresAt]

\* Put, key already in the map: overwrite value and expiresAt, move to front.
PutUpdate(S, key, value, expiresAt) ==
    LET node == S.cache[key]
        S1 == [S EXCEPT !.heap[node].value = value,
                        !.heap[node].expiresAt = expiresAt]
    IN  moveToFront(S1, node)

\* A Put that, at capacity, evicts an expired entry when there is one and
\* the least recently used entry only when none has expired.
PutEvictedExpiredFirst(S) ==
    IF AtCapacity(Cardinality(DOMAIN S.cache), capacity)
    THEN LET expired == {k \in DOMAIN S.cache :
                            GetExpired(now, S.heap[S.cache[k]].expiresAt)}
         IN  IF expired = {}
             THEN removeLeastUsed(S)
             ELSE LET k == CHOOSE x \in expired : TRUE
                      S1 == removeNode(S, S.cache[k])
                  IN  [S1 EXCEPT !.cache = MapDelete(S1.cache, k)]
    ELSE S

\* Put, key not in the map: if len(c.cache) >= c.capacity { c.removeLeastUsed() }
PutEvicted(S) ==
    IF AtCapacity(Cardinality(DOMAIN S.cache), capacity) THEN removeLeastUsed(S) ELSE S

\* An insert that turns the key away when the cache is full.
PutInsertRejectsWhenFull(S, key, value, expiresAt) ==
    IF AtCapacity(Cardinality(DOMAIN S.cache), capacity) /\ S.left # NIL
    THEN S
    ELSE LET newNode == NewNode(S, key)
             S2 == Allocate(S, newNode, key, value, expiresAt)
             S3 == [S2 EXCEPT !.cache = MapSet(S2.cache, key, newNode)]
         IN  addToFront(S3, newNode)

\* Put, key not in the map: evict at capacity, allocate, index, add to front.
PutInsert(S, key, value, expiresAt) ==
    LET S1 == PutEvicted(S)
        newNode == NewNode(S1, key)
        S2 == Allocate(S1, newNode, key, value, expiresAt)
        S3 == [S2 EXCEPT !.cache = MapSet(S2.cache, key, newNode)]
    IN  addToFront(S3, newNode)

\* func (c *LRUCache) Put(ctx, key, value, ttl) error, as a function of the store
PutStore(S, key, value, ttl) ==
    LET expiresAt == now + EffectiveTTL(ttl, defaultTTL)
    IN  IF key \in DOMAIN S.cache
        THEN PutUpdate(S, key, value, expiresAt)
        ELSE PutInsert(S, key, value, expiresAt)

Put(key, value, ttl) ==
    LET S == Store
        T == Collect(PutStore(S, key, value, ttl))
    IN  /\ key \in DOMAIN S.cache
           \/ NewNode(PutEvicted(S), key) \notin Reachable(PutEvicted(S))
        /\ Becomes(T)
        /\ last' = [Call("Put", key, value, ttl, NoErr, NilValue, NoTime, <<>>, <<>>,
                         FoundExp(S, key), Removed(S, T))
                        EXCEPT !.leastExp = LeastExp(S, key, capacity)]
        /\ History("Put", key, value, ttl, NoErr, T)
        /\ UNCHANGED <<cfg, capacity, defaultTTL, now>>

\* ------------------------------------------------------------ Get

\* A purge that deletes the key and leaves its node in the list.
GetPurgeKeepsNode(S, key) == [S EXCEPT !.cache = MapDelete(S.cache, key)]

\* Get, key in the map but expired: unlink the node and delete the key.
GetPurge(S, key) ==
    LET S1 == removeNode(S, S.cache[key])
    IN  [S1 EXCEPT !.cache = MapDelete(S1.cache, key)]

\* A Get that, on a hit, also renews the entry's expiresAt.
GetResultSlidingExpiry(S, key) ==
    IF key \notin DOMAIN S.cache
    THEN [store |-> S, val |-> NilValue, exp |-> ZeroTime, err |-> ErrKeyNotFound]
    ELSE LET node == S.cache[key]
         IN  IF GetExpired(now, S.heap[node].expiresAt)
             THEN [store |-> GetPurge(S, key), val |-> NilValue, exp |-> ZeroTime,
                   err |-> ErrKeyNotFound]
             ELSE LET S1 == moveToFront([S EXCEPT !.heap[node].expiresAt = now + 1], node)
                  IN  [store |-> S1, val |-> S1.heap[node].value,
                       exp |-> S1.heap[node].expiresAt, err |-> NoErr]

\* func (c *LRUCache) Get(ctx, key) (interface{}, time.Time, error): the store
\* it leaves and the three values it returns.
GetResult(S, key) ==
    IF key \notin DOMAIN S.cache
    THEN [store |-> S, val |-> NilValue, exp |-> ZeroTime, err |-> ErrKeyNotFound]
    ELSE LET node == S.cache[key]
         IN  IF GetExpired(now, S.heap[node].expiresAt)
             THEN [store |-> GetPurge(S, key), val |-> NilValue, exp |-> ZeroTime,
                   err |-> ErrKeyNotFound]
             ELSE LET S1 == moveToFront(S, node)
                  IN  [store |-> S1, val |-> S1.heap[node].value,
                       exp |-> S1.heap[node].expiresAt, err |-> NoErr]

Get(key) ==
    LET S == Store
        r == GetResult(S, key)
        T == Collect(r.store)
    IN  /\ Becomes(T)
        /\ last' = Call("Get", key, NilValue, NoTime, r.err, r.val, r.exp, <<>>, <<>>,
                        FoundExp(S, key), Removed(S, T))
        /\ History("Get", key, NilValue, NoTime, r.err, T)
        /\ UNCHANGED <<cfg, capacity, defaultTTL, now>>

\* ------------------------------------------------------------ GetAll

\* The nodes GetAll's loop visits: from c.right along next until nil.  A
\* sequence longer than the heap means the loop met a node twice and never ends.
RECURSIVE Traverse(_, _, _)
Traverse(h, current, fuel) ==
    IF current = NIL \/ fuel = 0
    THEN <<>>
    ELSE <<current>> \o Traverse(h, h[current].next, fuel - 1)

Visited(S) == Traverse(S.heap, S.right, Cardinality(DOMAIN S.heap) + 1)

\* The clock readings of one traversal, one per visited node: they start at
\* the time of the call, never decrease and end by the time until.
ClockReadings(n, t0, until) ==
    {ts \in [1 .. n -> t0 .. until] : \A i \in 1 .. n - 1 : ts[i] <= ts[i + 1]}

\* The nodes of the traversal that pass the expiry test, in visiting order.
RECURSIVE Kept(_, _, _, _)
Kept(h, nodes, ts, i) ==
    IF i > Len(nodes)
    THEN <<>>
    ELSE (IF GetAllLive(ts[i], h[nodes[i]].expiresAt) THEN <<nodes[i]>> ELSE <<>>)
         \o Kept(h, nodes, ts, i + 1)

\* func (c *LRUCache) GetAll(ctx) ([]string, []interface{}, error)
GetAllResult(S, ts) ==
    IF Cardinality(DOMAIN S.cache) = 0
    THEN [keys |-> <<>>, values |-> <<>>]
    ELSE LET kept == Kept(S.heap, Visited(S), ts, 1)
         IN  [keys |-> [i \in 1 .. Len(kept) |-> S.heap[kept[i]].key],
              values |-> [i \in 1 .. Len(kept) |-> S.heap[kept[i]].value]]

\* A GetAll that deletes the entry at the least recent end when it has
\* expired by the last clock reading.
GetAllPurging(until) ==
    LET S == Store
        nodes == Visited(S)
        n == IF Cardinality(DOMAIN S.cache) = 0 THEN 0 ELSE Len(nodes)
    IN  /\ Len(nodes) <= Cardinality(DOMAIN S.heap)
        /\ \E ts \in ClockReadings(n, now, until) :
              LET r == GetAllResult(S, ts)
                  T == IF n > 0 /\ S.left # NIL
                          /\ ~GetAllLive(ts[n], S.heap[S.left].expiresAt)
                       THEN Collect(GetPurge(S, S.heap[S.left].key))
                       ELSE S
              IN  /\ now' = IF n = 0 THEN now ELSE ts[n]
                  /\ last' = Call("GetAll", NoKey, NilValue, NoTime, NoErr, NilValue,
                                  NoTime, r.keys, r.values, NoTime, {})
                  /\ Becomes(T)
                  /\ History("GetAll", NoKey, NilValue, NoTime, NoErr, T)
        /\ UNCHANGED <<cfg, capacity, defaultTTL>>

GetAll(until) ==
    LET S == Store
        nodes == Visited(S)
        n == IF Cardinality(DOMAIN S.cache) = 0 THEN 0 ELSE Len(nodes)
    IN  /\ Len(nodes) <= Cardinality(DOMAIN S.heap)
        /\ \E ts \in ClockReadings(n, now, until) :
              LET r == GetAllResult(S, ts)
              IN  /\ now' = IF n = 0 THEN now ELSE ts[n]
                  /\ last' = Call("GetAll", NoKey, NilValue, NoTime, NoErr, NilValue,
                                  NoTime, r.keys, r.values, NoTime, {})
        /\ UNCHANGED <<cfg, capacity, defaultTTL, cache, left, right, heap, history>>

\* ------------------------------------------------------------ Evict, EvictAll

\* An Evict that unlinks the node and leaves the key in the map.
EvictStoreKeepsKey(S, key) == removeNode(S, S.cache[key])

\* Evict, key in the map: unlink the node and delete the key.
EvictStore(S, key) ==
    LET S1 == removeNode(S, S.cache[key])
    IN  [S1 EXCEPT !.cache = MapDelete(S1.cache, key)]

\* An Evict that, like Get, refuses an expired entry.
EvictResultChecksExpiry(S, key) ==
    IF key \notin DOMAIN S.cache \/ GetExpired(now, S.heap[S.cache[key]].expiresAt)
    THEN [store |-> S, val |-> NilValue, err |-> ErrKeyNotFound]
    ELSE [store |-> EvictStore(S, key), val |-> S.heap[S.cache[key]].value,
          err |-> NoErr]

\* An Evict that, when the key is not in the map, drops the least recently
\* used entry before it returns ErrKeyNotFound.
EvictResultMissDropsLeast(S, key) ==
    IF key \notin DOMAIN S.cache
    THEN [store |-> removeLeastUsed(S), val |-> NilValue, err |-> ErrKeyNotFound]
    ELSE [store |-> EvictStore(S, key), val |-> S.heap[S.cache[key]].value,
          err |-> NoErr]

\* func (c *LRUCache) Evict(ctx, key) (interface{}, error)
EvictResult(S, key) ==
    IF key \notin DOMAIN S.cache
    THEN [store |-> S, val |-> NilValue, err |-> ErrKeyNotFound]
    ELSE [store |-> EvictStore(S, key), val |-> S.heap[S.cache[key]].value,
          err |-> NoErr]

Evict(key) ==
    LET S == Store
        r == EvictResult(S, key)
        T == Collect(r.store)
    IN  /\ Becomes(T)
        /\ last' = Call("Evict", key, NilValue, NoTime, r.err, r.val, NoTime, <<>>, <<>>,
                        FoundExp(S, key), Removed(S, T))
        /\ History("Evict", key, NilValue, NoTime, r.err, T)
        /\ UNCHANGED <<cfg, capacity, defaultTTL, now>>

\* An EvictAll that makes a new map and leaves the list ends.
EvictAllStoreKeepsList(S) == [S EXCEPT !.cache = <<>>]

\* func (c *LRUCache) EvictAll(ctx) error, as a function of the store
EvictAllStore(S) ==
    [S EXCEPT !.right = NIL, !.left = NIL, !.cache = <<>>]

EvictAll ==
    LET S == Store
        T == Collect(EvictAllStore(S))
    IN  /\ Becomes(T)
        /\ last' = Call("EvictAll", NoKey, NilValue, NoTime, NoErr, NilValue, NoTime,
                        <<>>, <<>>, NoTime, Removed(S, T))
        /\ History("EvictAll", NoKey, NilValue, NoTime, NoErr, T)
        /\ UNCHANGED <<cfg, capacity, defaultTTL, now>>

\* ------------------------------------------------------------ time

\* Time passes between two calls.
Tick ==
    /\ now < MaxTime
    /\ now' = now + 1
    /\ last' = Call("Tick", NoKey, NilValue, NoTime, NoErr, NilValue, NoTime,
                    <<>>, <<>>, NoTime, {})
    /\ UNCHANGED <<cfg, capacity, defaultTTL, cache, left, right, heap, history>>

\* ------------------------------------------------------------ goroutines

\* The goroutines that call the cache, and the holder of a free lock.
Procs == {"p1", "p2", "p3"}
NoProc == "-"

\* A goroutine that is in no call, what it has read and what it returns.
NoCall == [op |-> "-", key |-> NoKey, value |-> NilValue, ttl |-> 0]
NoStore == [cache |-> <<>>, left |-> NIL, right |-> NIL, heap |-> <<>>]
NoResult == [err |-> NoErr, val |-> NilValue, exp |-> NoTime,
             keys |-> <<>>, values |-> <<>>]

\* A cache whose Get takes the read lock, as GetAll does.
ExclusiveExceptGet(op) == op \notin {"GetAll", "Get"}

\* Put, Get, Evict and EvictAll call c.mu.Lock(); GetAll calls c.mu.RLock().
Exclusive(op) == op # "GetAll"

\* c.mu before any call: no writer, no readers, no reader kept waiting.
Unlocked == [w |-> NoProc, readers |-> {}, blocked |-> {}]

\* A Lock that does not wait for the writer that holds the mutex.
WriterMayEnterAlways(m) == TRUE

\* c.mu.Lock() gets past the other writers when none holds the mutex.
WriterMayEnter(m) == m.w = NoProc

\* No goroutine has called the cache.
NoThreads ==
    /\ pc = [p \in Procs |-> "idle"]
    /\ call = [p \in Procs |-> NoCall]
    /\ mu = Unlocked
    /\ local = [p \in Procs |-> NoStore]
    /\ ret = [p \in Procs |-> NoResult]
    /\ lin = [store |-> NoStore, ret |-> [p \in Procs |-> NoResult]]

\* The body of the method of call c run on the fields S: the fields it
\* leaves and what it returns.
Body(c, S) ==
    IF c.op = "Put"
    THEN [store |-> PutStore(S, c.key, c.value, c.ttl), ret |-> NoResult]
    ELSE IF c.op = "Get"
    THEN LET r == GetResult(S, c.key)
         IN  [store |-> r.store,
              ret |-> [NoResult EXCEPT !.err = r.err, !.val = r.val, !.exp = r.exp]]
    ELSE IF c.op = "Evict"
    THEN LET r == EvictResult(S, c.key)
         IN  [store |-> r.store, ret |-> [NoResult EXCEPT !.err = r.err, !.val = r.val]]
    ELSE IF c.op = "EvictAll"
    THEN [store |-> EvictAllStore(S), ret |-> NoResult]
    ELSE LET n == IF Cardinality(DOMAIN S.cache) = 0 THEN 0 ELSE Len(Visited(S))
             r == GetAllResult(S, [i \in 1 .. n |-> now])
         IN  [store |-> S, ret |-> [NoResult EXCEPT !.keys = r.keys, !.values = r.values]]

\* A goroutine calls a method of the cache.
Invoke(p, c) ==
    /\ pc[p] = "idle"
    /\ pc' = [pc EXCEPT ![p] = "called"]
    /\ call' = [call EXCEPT ![p] = c]
    /\ UNCHANGED <<engine, http, mu, local, ret, lin>>

\* c.mu.Lock(): past the other writers, the goroutine keeps new readers out
\* and has the lock at once when no reader holds it.
Lock(p) ==
    /\ pc[p] = "called"
    /\ Exclusive(call[p].op)
    /\ WriterMayEnter(mu)
    /\ mu' = [mu EXCEPT !.w = p]
    /\ pc' = [pc EXCEPT ![p] = IF mu.readers = {} THEN "locked" ELSE "draining"]
    /\ UNCHANGED <<engine, http, call, local, ret, lin>>

\* c.mu.Lock(), the rest: the last reader has left.
Drained(p) ==
    /\ pc[p] = "draining"
    /\ mu.readers = {}
    /\ pc' = [pc EXCEPT ![p] = "locked"]
    /\ UNCHANGED <<engine, http, call, mu, local, ret, lin>>

\* c.mu.RLock(): the goroutine reads along with the other readers unless a
\* writer holds or awaits the lock; then it is kept waiting until that
\* writer unlocks.
RLock(p) ==
    /\ pc[p] = "called"
    /\ ~Exclusive(call[p].op)
    /\ IF mu.w = NoProc
       THEN /\ mu' = [mu EXCEPT !.readers = @ \cup {p}]
            /\ pc' = [pc EXCEPT ![p] = "locked"]
       ELSE /\ mu' = [mu EXCEPT !.blocked = @ \cup {p}]
            /\ pc' = [pc EXCEPT ![p] = "blocked"]
    /\ UNCHANGED <<engine, http, call, local, ret, lin>>

\* The body reads the fields of the cache it works on.
Load(p) ==
    /\ pc[p] = "locked"
    /\ local' = [local EXCEPT ![p] = Store]
    /\ pc' = [pc EXCEPT ![p] = "loaded"]
    /\ UNCHANGED <<engine, http, call, mu, ret, lin>>

\* The body does its work on what it read and, GetAll apart, writes the
\* fields of the cache; its result is ready.  The history runs the same call
\* on the cache that the calls before it, one at a time, have left.
Run(p) ==
    /\ pc[p] = "loaded"
    /\ \E b \in {Body(call[p], local[p])}, h \in {Body(call[p], lin.store)} :
        /\ IF call[p].op = "GetAll"
           THEN UNCHANGED <<cache, left, right, heap>>
           ELSE \E T \in {Collect(b.store)} : Becomes(T)
        /\ ret' = [ret EXCEPT ![p] = b.ret]
        /\ \E T \in {Collect(h.store)} :
               lin' = [store |-> T, ret |-> [lin.ret EXCEPT ![p] = h.ret]]
    /\ pc' = [pc EXCEPT ![p] = "done"]
    /\ UNCHANGED <<cfg, capacity, defaultTTL, now, last, history, http, call, mu, local>>

\* A return that, on the ErrKeyNotFound path, leaves the mutex locked.
ReturnForgetsUnlockOnError(p) ==
    /\ pc[p] = "done"
    /\ IF ret[p].err = ErrKeyNotFound
       THEN /\ mu' = mu
            /\ pc' = [pc EXCEPT ![p] = "idle"]
       ELSE IF Exclusive(call[p].op)
       THEN /\ mu' = [w |-> NoProc, readers |-> mu.blocked, blocked |-> {}]
            /\ pc' = [q \in Procs |-> IF q = p THEN "idle"
                                      ELSE IF q \in mu.blocked THEN "locked"
                                      ELSE pc[q]]
       ELSE /\ mu' = [mu EXCEPT !.readers = @ \ {p}]
            /\ pc' = [pc EXCEPT ![p] = "idle"]
    /\ call' = [call EXCEPT ![p] = NoCall]
    /\ local' = [local EXCEPT ![p] = NoStore]
    /\ ret' = [ret EXCEPT ![p] = NoResult]
    /\ lin' = [lin EXCEPT !.ret[p] = NoResult]
    /\ UNCHANGED <<engine, http>>

\* defer c.mu.Unlock() / defer c.mu.RUnlock(), and the return to the caller.
\* Unlock lets in the readers that were kept waiting.
Return(p) ==
    /\ pc[p] = "done"
    /\ IF Exclusive(call[p].op)
       THEN /\ mu' = [w |-> NoProc, readers |-> mu.blocked, blocked |-> {}]
            /\ pc' = [q \in Procs |-> IF q = p THEN "idle"
                                      ELSE IF q \in mu.blocked THEN "locked"
                                      ELSE pc[q]]
       ELSE /\ mu' = [mu EXCEPT !.readers = @ \ {p}]
            /\ pc' = [pc EXCEPT ![p] = "idle"]
    /\ call' = [call EXCEPT ![p] = NoCall]
    /\ local' = [local EXCEPT ![p] = NoStore]
    /\ ret' = [ret EXCEPT ![p] = NoResult]
    /\ lin' = [lin EXCEPT !.ret[p] = NoResult]
    /\ UNCHANGED <<engine, http>>

\* ------------------------------------------------------------ the HTTP server

\* The clock counts half seconds: time.Second is two of its units, and
\* time.Time.Unix() gives the whole seconds of an instant.
Second == 2
Unix(t) == t \div Second

\* time.Duration is a signed integer of 64 bits; here it has DurationBits
\* bits, and so has the int64 ttl_seconds.  Go's multiplication wraps around.
DurationBits == 9
MaxDuration == 2 ^ (DurationBits - 1) - 1
MinDuration == -(2 ^ (DurationBits - 1))
Wrap(n) == ((n - MinDuration) % (2 ^ DurationBits)) + MinDuration

StatusOK == 200
StatusCreated == 201
StatusNoContent == 204
StatusBadRequest == 400
StatusNotFound == 404
StatusInternalServerError == 500

\* The URL parameter and the JSON key of a request that names no key.
EmptyKey == ""

\* The requestBody of a request that is no POST.
NoBody == [json |-> FALSE, key |-> EmptyKey, value |-> NilValue,
           has_ttl |-> FALSE, ttl_seconds |-> 0]

\* An exchange: the handler, the key and the body of its request, the status
\* it wrote and, for a JSON answer, its fields.
Answer(handler, status, key, value, expires_at, keys, values) ==
    [handler |-> handler, body |-> NoBody, status |-> status, key |-> key,
     value |-> value, expires_at |-> expires_at, keys |-> keys, values |-> values]

\* A status with no JSON body (http.Error or WriteHeader alone).
Plain(handler, status, key) ==
    Answer(handler, status, key, NilValue, NoTime, <<>>, <<>>)

\* No request was served.
NoExchange == Plain("-", 0, NoKey)

\* A single caller of the cache methods: no HTTP exchange, no goroutines.
NoCallers == http = NoExchange /\ NoThreads
Direct == UNCHANGED callers

\* The server as one caller at a time.
Sequential == UNCHANGED threads

\* A handlePost that lets a negative ttl_seconds through.
PostRejectedAllowsNegativeTTL(req) == ~req.json \/ req.key = EmptyKey

\* handlePost: the body does not decode, names no key, or has ttl_seconds < 0.
\* req is the decoded requestBody: json tells whether Decode succeeded,
\* has_ttl whether TTLSeconds is not nil.
PostRejected(req) ==
    \/ ~req.json
    \/ req.key = EmptyKey
    \/ (req.has_ttl /\ req.ttl_seconds < 0)

\* handlePost: ttl := 0, or time.Duration(*req.TTLSeconds) * time.Second
PostTTL(req) == IF req.has_ttl THEN Wrap(req.ttl_seconds * Second) ELSE 0

\* func (s *Server) handlePost(w, r)
handlePost(req) ==
    IF PostRejected(req)
    THEN /\ http' = [Plain("POST", StatusBadRequest, req.key) EXCEPT !.body = req]
         /\ UNCHANGED engine
    ELSE /\ Put(req.key, req.value, PostTTL(req))
         /\ http' = [Plain("POST",
                           IF last'.err # NoErr THEN StatusInternalServerError
                           ELSE StatusCreated,
                           req.key) EXCEPT !.body = req]

\* A handleGet that answers every call of Get with 200.
GetAnswerAlwaysOK(key, r) ==
    Answer("GET", StatusOK, key, r.val, Unix(r.exp), <<>>, <<>>)

\* handleGet, after s.cache.Get returned r: 404, 500 or the JSON responseBody.
GetAnswer(key, r) ==
    IF r.err # NoErr
    THEN IF r.err = ErrKeyNotFound
         THEN Plain("GET", StatusNotFound, key)
         ELSE Plain("GET", StatusInternalServerError, key)
    ELSE Answer("GET", StatusOK, key, r.val, Unix(r.exp), <<>>, <<>>)

\* func (s *Server) handleGet(w, r)
handleGet(key) ==
    IF key = EmptyKey
    THEN /\ http' = Plain("GET", StatusBadRequest, key)
         /\ UNCHANGED engine
    ELSE /\ Get(key)
         /\ http' = GetAnswer(key, last')

\* A handleGetAll that answers 200 also when there are no keys.
GetAllAnswerAlwaysOK(r) ==
    Answer("GETALL", StatusOK, NoKey, NilValue, NoTime, r.keys, r.values)

\* handleGetAll, after s.cache.GetAll returned r: 500, 204 or the JSON lists.
GetAllAnswer(r) ==
    IF r.err # NoErr
    THEN Plain("GETALL", StatusInternalServerError, NoKey)
    ELSE IF Len(r.keys) = 0
         THEN Plain("GETALL", StatusNoContent, NoKey)
         ELSE Answer("GETALL", StatusOK, NoKey, NilValue, NoTime, r.keys, r.values)

\* func (s *Server) handleGetAll(w, r)
handleGetAll ==
    /\ GetAll(MaxTime)
    /\ http' = GetAllAnswer(last')

\* handleDelete, after s.cache.Evict returned r: 404, 500 or 204.
DeleteAnswer(key, r) ==
    IF r.err # NoErr
    THEN IF r.err = ErrKeyNotFound
         THEN Plain("DELETE", StatusNotFound, key)
         ELSE Plain("DELETE", StatusInternalServerError, key)
    ELSE Plain("DELETE", StatusNoContent, key)

\* func (s *Server) handleDelete(w, r)
handleDelete(key) ==
    IF key = EmptyKey
    THEN /\ http' = Plain("DELETE", StatusBadRequest, key)
         /\ UNCHANGED engine
    ELSE /\ Evict(key)
         /\ http' = DeleteAnswer(key, last')

\* func (s *Server) handleDeleteAll(w, r)
handleDeleteAll ==
    /\ EvictAll
    /\ http' = Plain("DELETEALL",
                     IF last'.err # NoErr THEN StatusInternalServerError
                     ELSE StatusNoContent,
                     NoKey)

\* ------------------------------------------------------------ the configuration

\* A string of the environment or of the command line is the sequence of its
\* characters.
Digits == <<"0", "1", "2", "3", "4", "5", "6", "7", "8", "9">>
IsDigit(c) == \E i \in DOMAIN Digits : Digits[i] = c
DigitValue(c) == (CHOOSE i \in DOMAIN Digits : Digits[i] = c) - 1

\* The number the decimal digits of s write.
RECURSIVE Decimal(_)
Decimal(s) ==
    IF s = <<>> THEN 0
    ELSE Decimal(SubSeq(s, 1, Len(s) - 1)) * 10 + DigitValue(s[Len(s)])

\* The decimal digits that write the natural number n.
RECURSIVE Itoa(_)
Itoa(n) ==
    IF n < 10 THEN <<Digits[n + 1]>>
    ELSE Itoa(n \div 10) \o <<Digits[(n % 10) + 1]>>

\* The length of the longest prefix of s that is made of digits (digits =
\* TRUE) or of characters that are no digits (digits = FALSE).
RECURSIVE Leading(_, _)
Leading(s, digits) ==
    IF s = <<>> \/ IsDigit(s[1]) # digits THEN 0
    ELSE 1 + Leading(Tail(s), digits)

\* A string without its sign, and the sign.
Unsigned(s) == IF s # <<>> /\ s[1] \in {"+", "-"} THEN Tail(s) ELSE s
Sign(s) == IF s # <<>> /\ s[1] = "-" THEN -1 ELSE 1

\* What a parser returns: whether the string was well formed, and its value.
Parsed(v) == [ok |-> TRUE, v |-> v]
Unparsable == [ok |-> FALSE, v |-> 0]

\* strconv.ParseInt in base 10, as env.Parse and flag.Int use it for an int:
\* an optional sign and one or more digits.
ParseInt(s) ==
    LET u == Unsigned(s)
    IN  IF u = <<>> \/ Leading(u, TRUE) # Len(u) THEN Unparsable
        ELSE Parsed(Sign(s) * Decimal(u))

\* The units of time.ParseDuration that are whole numbers of clock units.
UnitMap ==
    (<<"s">> :> Second) @@ (<<"m">> :> 60 * Second) @@ (<<"h">> :> 3600 * Second)

\* time.ParseDuration after the sign: one or more groups of digits and a
\* unit, added up; a sum that is more than MaxDuration is an error.
RECURSIVE Groups(_, _)
Groups(s, d) ==
    IF s = <<>> THEN Parsed(d)
    ELSE LET n == Leading(s, TRUE)
             rest == SubSeq(s, n + 1, Len(s))
             u == Leading(rest, FALSE)
             unit == SubSeq(rest, 1, u)
         IN  IF n = 0 \/ unit \notin DOMAIN UnitMap THEN Unparsable
             ELSE LET sum == d + Decimal(SubSeq(s, 1, n)) * UnitMap[unit]
                  IN  IF sum > MaxDuration THEN Unparsable
                      ELSE Groups(SubSeq(rest, u + 1, Len(rest)), sum)

\* time.ParseDuration: an optional sign, then "0" or groups.
ParseDuration(s) ==
    LET u == Unsigned(s)
        g == Groups(u, 0)
    IN  IF u = <<"0">> THEN Parsed(0)
        ELSE IF u = <<>> \/ ~g.ok THEN Unparsable
        ELSE Parsed(Sign(s) * g.v)

\* time.Duration.String() of a whole number of seconds: hours and minutes
\* when there are any, then seconds, as in "1m0s"; 0 is "0s".
DurationString(d) ==
    LET secs == (IF d < 0 THEN -d ELSE d) \div Second
        h == secs \div 3600
        m == (secs % 3600) \div 60
        s == Itoa(secs % 60) \o <<"s">>
        body == IF h > 0 THEN Itoa(h) \o <<"h">> \o Itoa(m) \o <<"m">> \o s
                ELSE IF m > 0 THEN Itoa(m) \o <<"m">> \o s
                ELSE s
    IN  IF d < 0 THEN <<"-">> \o body ELSE body

\* An environment variable or a flag: set to a string, or not set.
Unset == [set |-> FALSE, s |-> <<>>]
Set(s) == [set |-> TRUE, s |-> s]

\* The value of a variable or flag: the string it is set to, or its default.
Lookup(v, default) == IF v.set THEN v.s ELSE default

\* The envDefault tags of Config.CacheSize and Config.DefaultCacheTTL.
CacheSizeEnvDefault == <<"1", "0">>
DefaultCacheTTLEnvDefault == <<"6", "0", "s">>

\* ReadConfig returned an error (env.Parse failed), or flag.Parse ended the
\* process (the value of -cache-size is no int).
ErrEnvParse == "env: parse error"
ExitFlagParse == "flag: exit status 2"

NoCfg(err) == [err |-> err, CacheSize |-> 0, DefaultCacheTTL |-> 0]

\* func ReadConfig() (*Config, error), for the process environment environ
\* and the command line args.
ReadConfig(environ, args) ==
    LET size == ParseInt(Lookup(environ.CACHE_SIZE, CacheSizeEnvDefault))
        envTTL == ParseDuration(Lookup(environ.DEFAULT_CACHE_TTL,
                                       DefaultCacheTTLEnvDefault))
        cacheSizeFlag == IF args.cache_size.set THEN ParseInt(args.cache_size.s)
                         ELSE size
        cacheTTLFlag == Lookup(args.default_cache_ttl, DurationString(envTTL.v))
        ttl == ParseDuration(cacheTTLFlag)
    IN  IF ~size.ok \/ ~envTTL.ok THEN NoCfg(ErrEnvParse)
        ELSE IF ~cacheSizeFlag.ok THEN NoCfg(ExitFlagParse)
        ELSE [err |-> NoErr,
              CacheSize |-> cacheSizeFlag.v,
              DefaultCacheTTL |-> IF ~ttl.ok \/ ttl.v <= 0 THEN envTTL.v
                                  ELSE ttl.v]

\* The cache was built by a caller other than main.
NoConfig == [read |-> FALSE]

\* ------------------------------------------------------------ specification

\* func NewLRUCache(capacity int, defaultTTL time.Duration) ILRUCache
New(cap, dflt) ==
    /\ capacity = cap
    /\ defaultTTL = dflt
    /\ cache = <<>>
    /\ left = NIL
    /\ right = NIL
    /\ heap = <<>>
    /\ now = 0
    /\ last = Call("New", NoKey, NilValue, NoTime, NoErr, NilValue, NoTime,
                   <<>>, <<>>, NoTime, {})
    /\ touched = <<>>
    /\ stored = <<>>
    /\ fate = [k \in Keys |-> "never"]
    /\ since = <<>>

\* Callers that let time pass: the clock advances between calls and during
\* GetAll's traversal, and Put is called with every kind of ttl.
Init ==
    /\ \E cap \in Capacities, dflt \in DefaultTTLs : New(cap, dflt)
    /\ tracking = FALSE
    /\ cfg = NoConfig
    /\ NoCallers

PutAny == \E kv \in TimedPuts, ttl \in TTLs : Put(kv[1], kv[2], ttl) /\ Direct
GetAny == \E key \in TimedKeys : Get(key) /\ Direct
EvictAny == \E key \in TimedKeys : Evict(key) /\ Direct

Next ==
    \/ PutAny
    \/ GetAny
    \/ GetAll(MaxTime) /\ Direct
    \/ EvictAny
    \/ EvictAll /\ Direct
    \/ Tick /\ Direct

Spec == Init /\ [][Next]_vars

\* Callers that act at one instant (the clock stays at 0) on a larger cache:
\* four keys, capacities up to MaxRecencyCapacity.
RecencyInit ==
    /\ \E cap \in RecencyCapacities, dflt \in DefaultTTLs : New(cap, dflt)
    /\ tracking = FALSE
    /\ cfg = NoConfig
    /\ NoCallers

RecencyPut == \E kv \in RecencyPuts, ttl \in RecencyTTLs : Put(kv[1], kv[2], ttl) /\ Direct
RecencyGet == \E key \in Keys : Get(key) /\ Direct
RecencyEvict == \E key \in Keys : Evict(key) /\ Direct

RecencyNext ==
    \/ RecencyPut
    \/ RecencyGet
    \/ GetAll(0) /\ Direct
    \/ RecencyEvict
    \/ EvictAll /\ Direct

SpecRecency == RecencyInit /\ [][RecencyNext]_vars

\* Callers at one instant whose history keeps the fate of every key: two
\* keys are put, got and evicted, a third is got and evicted but never put.
FateInit ==
    /\ \E cap \in RecencyCapacities, dflt \in DefaultTTLs : New(cap, dflt)
    /\ tracking = TRUE
    /\ cfg = NoConfig
    /\ NoCallers

FatePut == \E kv \in FatePuts : Put(kv[1], kv[2], 0) /\ Direct
FateGet == \E key \in FateKeys : Get(key) /\ Direct
FateEvict == \E key \in FateKeys : Evict(key) /\ Direct

FateNext ==
    \/ FatePut
    \/ FateGet
    \/ FateEvict
    \/ EvictAll /\ Direct

SpecFate == FateInit /\ [][FateNext]_vars

\* Callers at one instant whose history counts, for every key, the touches
\* of other keys since its last touch: four keys are put without a ttl, got
\* and evicted, in caches that four keys can fill.
PressureCapacities == {1, 2, 3}
PressureInit ==
    /\ \E cap \in PressureCapacities, dflt \in DefaultTTLs : New(cap, dflt)
    /\ tracking = TRUE
    /\ cfg = NoConfig
    /\ NoCallers

PressurePut == \E kv \in RecencyPuts : Put(kv[1], kv[2], 0) /\ Direct
PressureGet == \E key \in Keys : Get(key) /\ Direct
PressureEvict == \E key \in Keys : Evict(key) /\ Direct

PressureNext ==
    \/ PressurePut
    \/ PressureGet
    \/ GetAll(0) /\ Direct
    \/ PressureEvict
    \/ EvictAll /\ Direct

SpecPressure == PressureInit /\ [][PressureNext]_vars

\* The server in front of a cache of capacity 1 or 2: requests name one of
\* two keys or none, POST bodies decode or do not, carry ttl_seconds or not,
\* one of them the smallest ttl_seconds whose duration is more than
\* MaxDuration, and time passes between requests and while GetAll runs.
ServerCapacities == {1, 2}
ServerKeys == {EmptyKey, "A", "B"}
ServerPosts ==
    {[json |-> FALSE, key |-> "A", value |-> "v1", has_ttl |-> FALSE, ttl_seconds |-> 0],
     [json |-> TRUE, key |-> EmptyKey, value |-> "v1", has_ttl |-> FALSE, ttl_seconds |-> 0],
     [json |-> TRUE, key |-> "A", value |-> "v1", has_ttl |-> TRUE, ttl_seconds |-> -1],
     [json |-> TRUE, key |-> "A", value |-> "v1", has_ttl |-> FALSE, ttl_seconds |-> 0],
     [json |-> TRUE, key |-> "A", value |-> "v2", has_ttl |-> TRUE, ttl_seconds |-> 0],
     [json |-> TRUE, key |-> "B", value |-> "v2", has_ttl |-> TRUE, ttl_seconds |-> 1],
     [json |-> TRUE, key |-> "B", value |-> "v1", has_ttl |-> TRUE,
      ttl_seconds |-> MaxDuration \div Second + 1]}

ServerInit ==
    /\ \E cap \in ServerCapacities, dflt \in DefaultTTLs : New(cap, dflt)
    /\ tracking = FALSE
    /\ cfg = NoConfig
    /\ http = NoExchange
    /\ NoThreads

ServerPost == \E req \in ServerPosts : handlePost(req) /\ Sequential
ServerGet == \E key \in ServerKeys : handleGet(key) /\ Sequential
ServerDelete == \E key \in ServerKeys : handleDelete(key) /\ Sequential
ServerTick == Tick /\ http' = NoExchange /\ Sequential

ServerNext ==
    \/ ServerPost
    \/ ServerGet
    \/ handleGetAll /\ Sequential
    \/ ServerDelete
    \/ handleDeleteAll /\ Sequential
    \/ ServerTick

SpecServer == ServerInit /\ [][ServerNext]_vars

\* The process as main starts it: the environment sets CACHE_SIZE and
\* DEFAULT_CACHE_TTL or leaves them unset, the command line gives -cache-size
\* and -default-cache-ttl or leaves them out, with values that are valid,
\* zero, negative or not well formed; then the server answers requests that
\* name one of two keys or none, while time passes.
ConfigEnvirons ==
    [CACHE_SIZE : {Unset, Set(<<"0">>), Set(<<"x">>)},
     DEFAULT_CACHE_TTL : {Unset, Set(<<"-", "1", "s">>), Set(<<"1", "d">>)}]
ConfigArgs ==
    [cache_size : {Unset, Set(<<"-", "1">>), Set(<<"2">>), Set(<<"2", "k">>)},
     default_cache_ttl : {Unset, Set(<<"a", "b", "c">>), Set(<<"0", "s">>),
                          Set(<<"1", "s">>)}]
ConfigPosts ==
    {[json |-> FALSE, key |-> "A", value |-> "v1", has_ttl |-> FALSE, ttl_seconds |-> 0],
     [json |-> TRUE, key |-> "A", value |-> "v1", has_ttl |-> FALSE, ttl_seconds |-> 0],
     [json |-> TRUE, key |-> "B", value |-> "v2", has_ttl |-> TRUE, ttl_seconds |-> 1]}

\* func main(): ReadConfig, then NewLRUCache(cfg.CacheSize,
\* cfg.DefaultCacheTTL) and the server; when ReadConfig fails no cache is
\* built (its fields have their zero values) and no request is served.
Main(environ, args) ==
    \E c \in {ReadConfig(environ, args)} :
        /\ cfg = [read |-> TRUE, environ |-> environ, args |-> args,
                  err |-> c.err, CacheSize |-> c.CacheSize,
                  DefaultCacheTTL |-> c.DefaultCacheTTL]
        /\ New(c.CacheSize, c.DefaultCacheTTL)
        /\ tracking = FALSE
        /\ http = NoExchange
        /\ NoThreads

Serving == cfg.read /\ cfg.err = NoErr

ConfigInit == \E environ \in ConfigEnvirons, args \in ConfigArgs : Main(environ, args)

ConfigPost == \E req \in ConfigPosts : Serving /\ handlePost(req) /\ Sequential
ConfigGet == \E key \in ServerKeys : Serving /\ handleGet(key) /\ Sequential
ConfigGetAll == Serving /\ handleGetAll /\ Sequential
ConfigTick == Serving /\ ServerTick

ConfigNext ==
    \/ ConfigPost
    \/ ConfigGet
    \/ ConfigGetAll
    \/ ConfigTick

SpecConfig == ConfigInit /\ [][ConfigNext]_vars

\* Three goroutines that call the cache at one instant, over and over: each
\* has three calls to choose from, every one of them can call GetAll, and the
\* cache has capacity 1 or 2 for the two keys they put.
ThreadCapacities == {1, 2}
ThreadCalls ==
    [p1 |-> {[op |-> "Put", key |-> "A", value |-> "v1", ttl |-> 0],
             [op |-> "Get", key |-> "A", value |-> NilValue, ttl |-> 0],
             [op |-> "GetAll", key |-> NoKey, value |-> NilValue, ttl |-> 0]},
     p2 |-> {[op |-> "Put", key |-> "B", value |-> "v2", ttl |-> 0],
             [op |-> "Evict", key |-> "A", value |-> NilValue, ttl |-> 0],
             [op |-> "GetAll", key |-> NoKey, value |-> NilValue, ttl |-> 0]},
     p3 |-> {[op |-> "EvictAll", key |-> NoKey, value |-> NilValue, ttl |-> 0],
             [op |-> "Get", key |-> "B", value |-> NilValue, ttl |-> 0],
             [op |-> "GetAll", key |-> NoKey, value |-> NilValue, ttl |-> 0]}]

ThreadInit ==
    /\ \E cap \in ThreadCapacities, dflt \in DefaultTTLs : New(cap, dflt)
    /\ tracking = FALSE
    /\ cfg = NoConfig
    /\ http = NoExchange
    /\ NoThreads

\* The steps of a goroutine inside a call.
Progress(p) ==
    \/ Lock(p)
    \/ Drained(p)
    \/ RLock(p)
    \/ Load(p)
    \/ Run(p)
    \/ Return(p)

ThreadInvoke == \E p \in Procs : \E c \in ThreadCalls[p] : Invoke(p, c)
ThreadLock == \E p \in Procs : Lock(p)
ThreadDrained == \E p \in Procs : Drained(p)
ThreadRLock == \E p \in Procs : RLock(p)
ThreadLoad == \E p \in Procs : Load(p)
ThreadRun == \E p \in Procs : Run(p)
ThreadReturn == \E p \in Procs : Return(p)

ThreadNext ==
    \/ ThreadInvoke
    \/ ThreadLock
    \/ ThreadDrained
    \/ ThreadRLock
    \/ ThreadLoad
    \/ ThreadRun
    \/ ThreadReturn

\* The scheduler runs every goroutine that can take a step, and the mutex
\* hands itself to every writer that keeps asking for it (sync.Mutex does not
\* starve a waiter).  No goroutine has to call the cache.
ThreadFairness ==
    \A p \in Procs : WF_vars(Progress(p)) /\ SF_vars(Lock(p))

SpecThreads == ThreadInit /\ [][ThreadNext]_vars /\ ThreadFairness

\* ------------------------------------------------------------ views

\* The keys of the list, read from c.right along next: most recent first.
ListKeys == [i \in 1 .. Len(Visited(Store)) |-> heap[Visited(Store)[i]].key]

\* The value and the expiresAt the map holds for a key.
ValueOf(k) == heap[cache[k]].value
ExpiresAtOf(k) == heap[cache[k]].expiresAt

\* A sequence without the elements of a set, the order of the rest kept.
Without(seq, gone) == SelectSeq(seq, LAMBDA x : x \notin gone)

\* ------------------------------------------------------------ properties

\* C1: in a cache constructed with capacity >= 1 the map never holds more
\* than capacity keys, whatever calls were made and however much time passed;
\* so neither the list nor the live entries are more than capacity.
CapacityBound ==
    capacity >= 1 =>
        /\ Cardinality(DOMAIN cache) <= capacity
        /\ Len(ListKeys) <= capacity
        /\ Cardinality({k \in DOMAIN cache : now < ExpiresAtOf(k)}) <= capacity

\* A Put into a full cache of the largest capacity evicted a key.
CapacityBoundWitness ==
    /\ last.op = "Put"
    /\ last.removed # {}
    /\ capacity = MaxCapacity
    /\ Cardinality(DOMAIN cache) = capacity

\* What a Put of key k, not in the map, does to the other keys: the keys
\* gone are dropped, k is added, every other key keeps its value and expiry.
PutNewFrame(k, gone) ==
    /\ DOMAIN cache' = ((DOMAIN cache) \ gone) \cup {k}
    /\ \A j \in (DOMAIN cache) \ gone :
          /\ j \in DOMAIN cache'
          /\ ValueOf(j)' = ValueOf(j)
          /\ ExpiresAtOf(j)' = ExpiresAtOf(j)
    /\ gone # {} =>
          /\ left # NIL
          /\ gone = {heap[left].key}
          /\ gone = {touched[Len(touched)]}

GetNotFoundIffAbsentOrExpired ==
    last.op = "Get" =>
        /\ (last.err = ErrKeyNotFound) <=>
              (last.foundExp = NoTime \/ now >= last.foundExp)
        /\ last.err # ErrKeyNotFound =>
              /\ last.err = NoErr
              /\ last.key \in DOMAIN stored
              /\ last.val = stored[last.key].value
              /\ last.exp = stored[last.key].expiresAt

PutExistingOverwrites ==
    [][\A k \in Keys :
        (last'.op = "Put" /\ last'.key = k /\ k \in DOMAIN cache) =>
            /\ DOMAIN cache' = DOMAIN cache
            /\ last'.removed = {}
            /\ ValueOf(k)' = last'.value
            /\ ExpiresAtOf(k)' = now + (IF last'.ttl > 0 THEN last'.ttl ELSE defaultTTL)
            /\ ListKeys' = <<k>> \o Without(ListKeys, {k})
            /\ \A j \in (DOMAIN cache) \ {k} :
                  /\ ValueOf(j)' = ValueOf(j)
                  /\ ExpiresAtOf(j)' = ExpiresAtOf(j)]_vars

\* A Put(A, v2, 1) on a full cache found A with an expiry later than its own
\* now + 1: A is first in the list and no key was evicted.
PutExistingOverwritesWitness ==
    /\ last.op = "Put"
    /\ last.key = "A"
    /\ last.value = "v2"
    /\ last.foundExp # NoTime
    /\ last.foundExp > now + 1
    /\ last.ttl = 1
    /\ capacity = MaxCapacity
    /\ Cardinality(DOMAIN cache) = capacity
    /\ ListKeys[1] = "A"

\* C6: Evict(k) of a key in the map removes k from the map and the list and
\* returns, with a nil error, the value the most recent Put of k stored; it
\* does so whether or not k is expired, and every other key keeps its value,
\* its expiry and its place relative to the others.
EvictRemoves ==
    [][\A k \in Keys :
        (last'.op = "Evict" /\ last'.key = k /\ k \in DOMAIN cache) =>
            /\ last'.err = NoErr
            /\ last'.val = stored[k].value
            /\ DOMAIN cache' = (DOMAIN cache) \ {k}
            /\ ListKeys' = Without(ListKeys, {k})
            /\ \A j \in (DOMAIN cache) \ {k} :
                  /\ ValueOf(j)' = ValueOf(j)
                  /\ ExpiresAtOf(j)' = ExpiresAtOf(j)]_vars

\* An Evict returned the value of a key that had expired, and left another
\* key in the cache.
EvictRemovesWitness ==
    /\ last.op = "Evict"
    /\ last.err = NoErr
    /\ last.val = "v2"
    /\ last.key = "A"
    /\ last.foundExp # NoTime
    /\ last.foundExp < now
    /\ Cardinality(DOMAIN cache) = 1

\* C7: once Evict(k) has succeeded, every Get(k) and every Evict(k) returns
\* ErrKeyNotFound until the next Put(k); so does every Get and Evict of a key
\* that was never put.  A successful Evict(k) leaves k out of the map.
EvictedStaysNotFound ==
    [][\A k \in Keys :
        /\ (last'.op = "Evict" /\ last'.key = k /\ last'.err = NoErr) =>
              k \notin DOMAIN cache'
        /\ (fate[k] \in {"evicted", "never"} /\ last'.op \in {"Get", "Evict"}
                /\ last'.key = k) =>
              /\ last'.err = ErrKeyNotFound
              /\ last'.val = NilValue
              /\ k \notin DOMAIN cache']_vars

\* Evict(B) succeeded and then Evict(B) returned ErrKeyNotFound, while A is
\* in the cache and C was never put.
EvictedStaysNotFoundWitness ==
    /\ tracking
    /\ fate["B"] = "evicted"
    /\ fate["C"] = "never"
    /\ last.op = "Evict"
    /\ last.key = "B"
    /\ last.err = ErrKeyNotFound
    /\ "A" \in DOMAIN cache

\* C8: EvictAll returns a nil error and leaves the map empty and both list
\* ends nil; in the state it leaves, Get of any key returns ErrKeyNotFound,
\* GetAll returns no keys and no values, and another EvictAll returns nil and
\* leaves the cache empty.
EvictAllEmpties ==
    [][/\ last'.op = "EvictAll" =>
             /\ last'.err = NoErr
             /\ DOMAIN cache' = {}
             /\ left' = NIL
             /\ right' = NIL
             /\ ListKeys' = <<>>
       /\ last.op = "EvictAll" =>
             /\ last'.op = "Get" => last'.err = ErrKeyNotFound
             /\ last'.op = "GetAll" => (last'.keys = <<>> /\ last'.values = <<>>)
             /\ last'.op = "EvictAll" => (last'.err = NoErr /\ cache' = cache)]_vars

\* EvictAll emptied a cache that held three keys.
EvictAllEmptiesWitness ==
    /\ last.op = "EvictAll"
    /\ Cardinality(last.removed) = 3

\* The elements of a sequence.
Elements(seq) == {seq[i] : i \in 1 .. Len(seq)}

GetAllChangesNothing ==
    [][last'.op = "GetAll" =>
        /\ cache' = cache
        /\ left' = left
        /\ right' = right
        /\ heap' = heap
        /\ ListKeys' = ListKeys
        /\ touched' = touched]_vars

\* GetAll left out an expired entry, which is still in the map and the list.
GetAllChangesNothingWitness ==
    /\ last.op = "GetAll"
    /\ \E k \in DOMAIN cache :
          /\ k \notin Elements(last.keys)
          /\ k \in Elements(ListKeys)
          /\ now > ExpiresAtOf(k)

\* C11: in every reachable state the keys of the map are exactly the keys of
\* the nodes the list holds from its most recent end, no key twice: every
\* key of the map points to a node of the list that carries that key, every
\* node of the list is the map's node for its key, and no node outside the
\* list is reachable from the cache.
IndexListAgree ==
    LET nodes == Visited(Store)
    IN  /\ Len(nodes) <= Cardinality(DOMAIN heap)
        /\ Elements(ListKeys) = DOMAIN cache
        /\ Len(ListKeys) = Cardinality(DOMAIN cache)
        /\ \A k \in DOMAIN cache :
              /\ cache[k] \in Elements(nodes)
              /\ heap[cache[k]].key = k
        /\ \A i \in 1 .. Len(nodes) : cache[heap[nodes[i]].key] = nodes[i]
        /\ DOMAIN heap = Elements(nodes)

\* A Get found its key expired and purged it, and another key is still in
\* the map and the list.
IndexListAgreeWitness ==
    /\ last.op = "Get"
    /\ last.err = ErrKeyNotFound
    /\ last.removed = {last.key}
    /\ Cardinality(DOMAIN cache) = 1
    /\ Len(ListKeys) = 1

\* C12: Put, GetAll and EvictAll return a nil error in every state and for
\* every argument; the only error a call returns is ErrKeyNotFound, and only
\* Get and Evict return it.  A Put on a full cache is not turned away: it
\* returns nil and its key is in the map with its value.
OnlyKeyNotFound ==
    /\ last.err \in {NoErr, ErrKeyNotFound}
    /\ last.op \in {"Put", "GetAll", "EvictAll"} => last.err = NoErr
    /\ last.err = ErrKeyNotFound => last.op \in {"Get", "Evict"}
    /\ last.op = "Put" =>
          /\ last.key \in DOMAIN cache
          /\ ValueOf(last.key) = last.value

\* A Put with a negative ttl into a full cache returned nil and evicted a key.
OnlyKeyNotFoundWitness ==
    /\ last.op = "Put"
    /\ last.ttl < 0
    /\ last.err = NoErr
    /\ last.foundExp = NoTime
    /\ last.removed # {}
    /\ last.key \in DOMAIN cache

\* C19: in every reachable state the list, read from the most recent end,
\* holds the keys of the map in the order of their last touch, the latest
\* first, a touch being a Put of the key or a successful Get of it; GetAll,
\* a failed Get and an Evict leave the keys that stay in their order.
RecencyOrder ==
    /\ [](ListKeys = touched)
    /\ [][(\/ last'.op = "GetAll"
           \/ last'.op = "Evict"
           \/ (last'.op = "Get" /\ last'.err = ErrKeyNotFound)) =>
              ListKeys' = Without(ListKeys, last'.removed)]_vars

\* C was put last, then A and C were got in turn: the list is C, A, B.
RecencyOrderWitness ==
    /\ last.op = "Get"
    /\ last.err = NoErr
    /\ last.key = "C"
    /\ ListKeys = <<"C", "A", "B">>
    /\ touched = <<"C", "A", "B">>

\* C20: a successful Get(k) only promotes k: k is then at the most recent
\* end, the keys of the map, every value and every expiresAt (k's too) are
\* as before, the other keys keep their order, and Get returns k's value and
\* expiresAt; when k was already at the most recent end no field of the cache
\* and no node changes.
GetOnlyPromotes ==
    [][\A k \in Keys :
        (last'.op = "Get" /\ last'.key = k /\ last'.err = NoErr) =>
            /\ k \in DOMAIN cache
            /\ DOMAIN cache' = DOMAIN cache
            /\ cache' = cache
            /\ ListKeys' = <<k>> \o Without(ListKeys, {k})
            /\ \A j \in DOMAIN cache :
                  /\ ValueOf(j)' = ValueOf(j)
                  /\ ExpiresAtOf(j)' = ExpiresAtOf(j)
            /\ last'.val = ValueOf(k)
            /\ last'.exp = ExpiresAtOf(k)
            /\ ListKeys[1] = k =>
                  (heap' = heap /\ left' = left /\ right' = right)]_vars

\* After time has passed a Get succeeded on a key of a list of two: the key
\* is at the most recent end and the other one at the least recent end.
GetOnlyPromotesWitness ==
    /\ last.op = "Get"
    /\ last.err = NoErr
    /\ now > 0
    /\ Len(ListKeys) = 2
    /\ ListKeys[1] = last.key
    /\ touched = ListKeys
    /\ heap[right].next = left
    /\ heap[left].prev = right

\* C16: handlePost answers 201 exactly for a body that decodes, names a key
\* and has ttl_seconds absent or >= 0, and then the key is in the cache with
\* the value of the body and, when ttl_seconds seconds fit a time.Duration,
\* the expiry of a Put with ttl_seconds seconds (the default TTL when absent
\* or 0); for a body that does not decode, names
\* no key or has ttl_seconds < 0 it answers 400 and neither the cache nor its
\* history changes: no Put is made.
PostStoresOnlyValid ==
    [][\A req \in ServerPosts :
        (http'.handler = "POST" /\ http'.body = req) =>
            LET valid == /\ req.json
                         /\ req.key # EmptyKey
                         /\ (~req.has_ttl \/ req.ttl_seconds >= 0)
            IN  /\ (http'.status = StatusCreated) <=> valid
                /\ ~valid =>
                      /\ http'.status = StatusBadRequest
                      /\ UNCHANGED engine
                /\ valid =>
                      /\ last'.op = "Put"
                      /\ last'.key = req.key
                      /\ req.key \in DOMAIN cache'
                      /\ ValueOf(req.key)' = req.value
                      /\ req.ttl_seconds * Second <= MaxDuration =>
                            ExpiresAtOf(req.key)' =
                                now + (IF req.has_ttl /\ req.ttl_seconds > 0
                                       THEN req.ttl_seconds * Second
                                       ELSE defaultTTL)]_vars

\* A POST with ttl_seconds = -1 for a key that is in the cache was answered
\* 400; the last call of the cache is still the Put that stored the key.
PostStoresOnlyValidWitness ==
    /\ http.handler = "POST"
    /\ http.status = StatusBadRequest
    /\ http.body.json
    /\ http.body.has_ttl
    /\ http.body.ttl_seconds < 0
    /\ http.body.key \in DOMAIN cache
    /\ last.op = "Put"

\* C17: handleGet with a key calls Get once and answers 200 with the key,
\* the value and the expiresAt (in Unix seconds) Get returned exactly when Get
\* returned no error, and 404 exactly when Get returned ErrKeyNotFound, which
\* is when the key is not in the map or Get finds it expired; handleDelete
\* with a key calls Evict once and answers 204 exactly when Evict returned no
\* error and 404 when it returned ErrKeyNotFound; with an empty key both
\* answer 400 and the cache is not called.
StatusMirrorsEngine ==
    [][/\ \A key \in ServerKeys \ {EmptyKey} :
            /\ (http'.handler = "GET" /\ http'.key = key) =>
                  /\ last'.op = "Get"
                  /\ last'.key = key
                  /\ http'.status \in {StatusOK, StatusNotFound}
                  /\ (http'.status = StatusOK) <=> (last'.err = NoErr)
                  /\ (http'.status = StatusNotFound) <=> (last'.err = ErrKeyNotFound)
                  /\ (http'.status = StatusNotFound) <=>
                        (key \notin DOMAIN cache \/ GetExpired(now, ExpiresAtOf(key)))
                  /\ http'.status = StatusOK =>
                        /\ http'.value = ValueOf(key)
                        /\ http'.expires_at = Unix(ExpiresAtOf(key))
                        /\ http'.value = last'.val
                        /\ http'.expires_at = Unix(last'.exp)
            /\ (http'.handler = "DELETE" /\ http'.key = key) =>
                  /\ last'.op = "Evict"
                  /\ last'.key = key
                  /\ http'.status \in {StatusNoContent, StatusNotFound}
                  /\ (http'.status = StatusNoContent) <=> (last'.err = NoErr)
                  /\ (http'.status = StatusNotFound) <=> (last'.err = ErrKeyNotFound)
                  /\ (http'.status = StatusNoContent) <=> (key \in DOMAIN cache)
       /\ (http'.handler \in {"GET", "DELETE"} /\ http'.key = EmptyKey) =>
            /\ http'.status = StatusBadRequest
            /\ UNCHANGED engine]_vars

\* A GET of a key that was in the map, expired, was answered 404 and the key
\* is gone.
StatusMirrorsEngineWitness ==
    /\ http.handler = "GET"
    /\ http.status = StatusNotFound
    /\ last.op = "Get"
    /\ last.foundExp # NoTime
    /\ last.removed = {http.key}

InCritical(p) == pc[p] \in {"locked", "loaded", "done"}

\* C13: Put, Get, Evict and EvictAll run their bodies holding the write lock
\* and GetAll holding the read lock: no two goroutines are in their critical
\* sections at once unless both are in GetAll, a goroutine in a critical
\* section holds the lock of its kind, and a goroutine outside it has read
\* nothing of the cache and has no result.
LockDiscipline ==
    /\ \A p, q \in Procs :
          (p # q /\ InCritical(p) /\ InCritical(q)) =>
              (call[p].op = "GetAll" /\ call[q].op = "GetAll")
    /\ \A p \in Procs :
          /\ (InCritical(p) /\ call[p].op \in {"Put", "Get", "Evict", "EvictAll"}) =>
                (mu.w = p /\ mu.readers = {})
          /\ (InCritical(p) /\ call[p].op = "GetAll") =>
                (p \in mu.readers /\ \A q \in Procs : mu.w = q => ~InCritical(q))
          /\ ~InCritical(p) => (local[p] = NoStore /\ ret[p] = NoResult)
          /\ pc[p] \in {"locked", "idle", "called", "draining", "blocked"} =>
                local[p] = NoStore

\* Two goroutines are in GetAll at once, and a third that called Put waits
\* for them to leave.
LockDisciplineWitness ==
    /\ InCritical("p2")
    /\ InCritical("p3")
    /\ call["p2"].op = "GetAll"
    /\ call["p3"].op = "GetAll"
    /\ pc["p1"] = "draining"
    /\ call["p1"].op = "Put"

\* C14: the concurrent calls are linearizable: each call takes effect at one
\* instant between its invocation and its return, so the order of these
\* instants respects the order of calls that do not overlap; what a call
\* returns is what it returns when the calls are run one at a time in that
\* order, and the cache they leave is the cache the calls run one at a time
\* leave.
Linearizable ==
    /\ \A p \in Procs : pc[p] = "done" => ret[p] = lin.ret[p]
    /\ (\A p \in Procs : pc[p] # "loaded") => Store = lin.store

\* Get(A) is about to return the value that Put(A) stored, while Evict(A)
\* and EvictAll, called meanwhile, wait for the lock.
LinearizableWitness ==
    /\ pc["p1"] = "done"
    /\ call["p1"].op = "Get"
    /\ ret["p1"].err = NoErr
    /\ ret["p1"].val = "v1"
    /\ pc["p2"] = "called"
    /\ call["p2"].op = "Evict"
    /\ pc["p3"] = "called"
    /\ call["p3"].op = "EvictAll"

\* A goroutine is in a call of the cache.
Busy == \E p \in Procs : pc[p] # "idle"

\* C15: no deadlock is reachable and every call completes: whenever a
\* goroutine is in a call some goroutine in a call can take a step, GetAll's
\* traversal reaches the end of the list, and under fair scheduling every call
\* of Put, Get, GetAll, Evict and EvictAll returns, the calls that return
\* ErrKeyNotFound included; a goroutine holds or awaits no lock outside a call.
EveryCallReturns ==
    /\ [](Busy => ENABLED (\E p \in Procs : Progress(p)))
    /\ [](Len(Visited(Store)) <= Cardinality(DOMAIN heap))
    /\ []((\A p \in Procs : pc[p] = "idle") => mu = Unlocked)
    /\ \A p \in Procs : (pc[p] # "idle") ~> (pc[p] = "idle")

\* Evict(A) is about to return ErrKeyNotFound while a GetAll is kept waiting
\* behind it.
EveryCallReturnsWitness ==
    /\ pc["p2"] = "done"
    /\ call["p2"].op = "Evict"
    /\ ret["p2"].err = ErrKeyNotFound
    /\ pc["p3"] = "blocked"
    /\ mu.blocked = {"p3"}

\* C21: a Get(k) that finds k in the map with its expiresAt passed (the test
\* of Get, time.Now().After(expiresAt)) returns ErrKeyNotFound and removes k
\* from the map and from the list, wherever k is in the list: at the most
\* recent end, in the middle, at the least recent end or alone.  The map
\* holds one key less, the two ends are the ends of the list that is left,
\* and every other key keeps its value, its expiresAt and its place among
\* the others.
ExpiredGetPurges ==
    [][\A k \in Keys :
        (last'.op = "Get" /\ last'.key = k /\ k \in DOMAIN cache
            /\ now > ExpiresAtOf(k)) =>
            /\ last'.err = ErrKeyNotFound
            /\ last'.val = NilValue
            /\ DOMAIN cache' = (DOMAIN cache) \ {k}
            /\ Cardinality(DOMAIN cache') = Cardinality(DOMAIN cache) - 1
            /\ ListKeys' = Without(ListKeys, {k})
            /\ right' = (IF ListKeys' = <<>> THEN NIL ELSE cache'[ListKeys'[1]])
            /\ left' = (IF ListKeys' = <<>> THEN NIL ELSE cache'[ListKeys'[Len(ListKeys')]])
            /\ \A j \in (DOMAIN cache) \ {k} :
                  /\ cache'[j] = cache[j]
                  /\ ValueOf(j)' = ValueOf(j)
                  /\ ExpiresAtOf(j)' = ExpiresAtOf(j)]_vars

\* Capacity 3, the list was C, B, A with B expired: Get(B) returned
\* ErrKeyNotFound and took B out of the middle; C and A are left.
ExpiredGetPurgesWitness ==
    /\ capacity = 3
    /\ last.op = "Get"
    /\ last.key = "B"
    /\ last.err = ErrKeyNotFound
    /\ last.removed = {"B"}
    /\ last.foundExp < now
    /\ ListKeys = <<"C", "A">>

\* C22: a failed call does not damage the cache.  A Get or an Evict of a key
\* that is not in the map returns ErrKeyNotFound and leaves the map, the two
\* ends and every node (links, values, expiries) as they were.  After every
\* call that returned ErrKeyNotFound, the Get of an expired key included, the
\* keys of the map are the keys of the list, each node the map's node for its
\* key, in the order of their last touch; the keys that stay keep their
\* order, values and expiries; and the map has not grown, so it holds no
\* more than capacity keys when capacity >= 1.
FailureLeavesCacheSound ==
    /\ [][\A k \in Keys :
            (last'.op \in {"Get", "Evict"} /\ last'.key = k /\ k \notin DOMAIN cache) =>
                /\ last'.err = ErrKeyNotFound
                /\ cache' = cache
                /\ left' = left
                /\ right' = right
                /\ heap' = heap]_vars
    /\ [][last'.err = ErrKeyNotFound =>
            /\ DOMAIN cache' \subseteq DOMAIN cache
            /\ ListKeys' = Without(ListKeys, last'.removed)
            /\ \A j \in DOMAIN cache' :
                  /\ ValueOf(j)' = ValueOf(j)
                  /\ ExpiresAtOf(j)' = ExpiresAtOf(j)]_vars
    /\ [](last.err = ErrKeyNotFound =>
            /\ Elements(ListKeys) = DOMAIN cache
            /\ Len(ListKeys) = Cardinality(DOMAIN cache)
            /\ \A k \in DOMAIN cache : heap[cache[k]].key = k
            /\ DOMAIN heap = Elements(Visited(Store))
            /\ ListKeys = touched
            /\ capacity >= 1 => Cardinality(DOMAIN cache) <= capacity)

\* In a full cache of two keys, one of them past its expiry, an Evict of a
\* third key returned ErrKeyNotFound and both keys are still there.
FailureLeavesCacheSoundWitness ==
    /\ last.op = "Evict"
    /\ last.err = ErrKeyNotFound
    /\ last.foundExp = NoTime
    /\ capacity = 2
    /\ Cardinality(DOMAIN cache) = 2
    /\ \E k \in DOMAIN cache : now > ExpiresAtOf(k)

\* C23: an entry whose expiresAt has come stays in the map and in the list,
\* and counts toward the capacity, until a Get of its key, a Put of its key,
\* an Evict of its key, an EvictAll, or a Put of a new key into a full cache
\* while it is at the least recent end.  The passage of time, GetAll and the
\* calls on other keys that do not evict it leave it where it is with its
\* value and expiresAt; a Put of its key keeps it in the map with the new
\* value and a new expiresAt.  So a Put of a new key into a full cache evicts
\* the entry at the least recent end, whether live or not, and no other, even
\* when an expired entry is elsewhere in the list.
ExpiredStaysUntilTouched ==
    /\ [][\A k \in DOMAIN cache :
            ~(now < ExpiresAtOf(k)) =>
                /\ k \notin DOMAIN cache' =>
                      \/ last'.op \in {"Get", "Evict"} /\ last'.key = k
                      \/ last'.op = "EvictAll"
                      \/ /\ last'.op = "Put"
                         /\ last'.key \notin DOMAIN cache
                         /\ Cardinality(DOMAIN cache) >= capacity
                         /\ left = cache[k]
                /\ last'.op \in {"Tick", "GetAll"} => k \in DOMAIN cache'
                /\ (last'.op \in {"Get", "Evict"} /\ last'.key # k) => k \in DOMAIN cache'
                /\ (last'.op = "Put" /\ last'.key # k /\ left # cache[k]) =>
                      k \in DOMAIN cache'
                /\ (last'.op = "Put" /\ last'.key = k) =>
                      /\ k \in DOMAIN cache'
                      /\ ValueOf(k)' = last'.value
                      /\ ExpiresAtOf(k)' = now + EffectiveTTL(last'.ttl, defaultTTL)
                /\ (k \in DOMAIN cache' /\ ~(last'.op = "Put" /\ last'.key = k)) =>
                      /\ k \in Elements(ListKeys')
                      /\ ValueOf(k)' = ValueOf(k)
                      /\ ExpiresAtOf(k)' = ExpiresAtOf(k)]_vars
    /\ [][(last'.op = "Put" /\ last'.key \notin DOMAIN cache
              /\ Cardinality(DOMAIN cache) >= capacity /\ left # NIL) =>
              /\ last'.removed = {heap[left].key}
              /\ last'.leastExp = heap[left].expiresAt
              /\ DOMAIN cache' = ((DOMAIN cache) \ {heap[left].key}) \cup {last'.key}]_vars

\* A full cache of two held a live entry at the least recent end and an
\* expired one before it: the Put of a third key evicted the live entry, and
\* the expired one is still in the map and the list.
ExpiredStaysUntilTouchedWitness ==
    /\ capacity = 2
    /\ last.op = "Put"
    /\ last.foundExp = NoTime
    /\ Cardinality(last.removed) = 1
    /\ now < last.leastExp
    /\ Len(ListKeys) = 2
    /\ ListKeys[1] = last.key
    /\ now > ExpiresAtOf(ListKeys[2])

\* C24 as claimed: a cache constructed with capacity 0 or less holds no
\* entry: after every call the map holds at most capacity keys, that is none,
\* a Put leaves the map and the list empty, and a Get finds nothing, the key
\* just put included.
ZeroCapacityHoldsNothing ==
    capacity <= 0 =>
        /\ Cardinality(DOMAIN cache) <= (IF capacity < 0 THEN 0 ELSE capacity)
        /\ last.op = "Put" => (cache = <<>> /\ left = NIL /\ right = NIL)
        /\ last.op = "Get" => last.err = ErrKeyNotFound

\* C25 as claimed: what one GetAll returns is the view of a single instant:
\* there is a time t between the start of the call and its return such that
\* the keys returned are exactly the keys of the map with expiresAt > t, and
\* the keys left out exactly those with expiresAt <= t.
GetAllPointInTime ==
    [][last'.op = "GetAll" =>
        \E t \in now .. now' :
            \A k \in DOMAIN cache :
                (k \in Elements(last'.keys)) <=> (ExpiresAtOf(k) > t)]_vars

\* C26: in every reachable state the doubly linked list is well formed.  The
\* walk from c.right along next meets no node twice, visits as many nodes as
\* the map has keys and ends at c.left; c.right has no prev and c.left no
\* next; for every node of the list its next node points back to it with
\* prev and its prev node points to it with next; and each end is nil
\* exactly when the map is empty.
ListWellFormed ==
    LET nodes == Visited(Store)
        n == Len(nodes)
    IN  /\ n <= Cardinality(DOMAIN heap)
        /\ Cardinality(Elements(nodes)) = n
        /\ n = Cardinality(DOMAIN cache)
        /\ (right = NIL) <=> (DOMAIN cache = {})
        /\ (left = NIL) <=> (DOMAIN cache = {})
        /\ right # NIL => heap[right].prev = NIL
        /\ left # NIL => (heap[left].next = NIL /\ nodes[n] = left)
        /\ \A x \in Elements(nodes) :
              /\ heap[x].next # NIL => heap[heap[x].next].prev = x
              /\ heap[x].prev # NIL => heap[heap[x].prev].next = x
              /\ heap[x].next = NIL => x = left
              /\ heap[x].prev = NIL => x = right

\* Capacity 3: A, B and C were put and Get(B) moved the middle node to the
\* most recent end; the list is B, C, A.
ListWellFormedWitness ==
    /\ capacity = 3
    /\ last.op = "Get"
    /\ last.key = "B"
    /\ last.err = NoErr
    /\ ListKeys = <<"B", "C", "A">>
    /\ heap[right].key = "B"
    /\ heap[left].key = "A"

\* C27 as claimed: Get and GetAll agree on which entries are live at every
\* instant, the instant now = expiresAt included: for every key of the map,
\* a GetAll that reads the clock at now returns the key if and only if a
\* Get of the key at now succeeds.
GetAndGetAllAgree ==
    \A k \in DOMAIN cache :
        LET all == GetAllResult(Store, [i \in 1 .. Len(Visited(Store)) |-> now])
        IN  (k \in Elements(all.keys)) <=> (GetResult(Store, k).err = NoErr)

\* C28 as claimed: with capacity C >= 1, a key that was just put or got is
\* not evicted by the next C - 1 Puts of keys that are not in the map,
\* whatever Gets, GetAlls and Puts of keys in the map come between: the Put
\* that evicts it is at least the C-th Put of a new key since its last touch.
EvictedNoEarlierThanCthPut ==
    [][\A k \in DOMAIN cache :
        (capacity >= 1 /\ last'.op = "Put" /\ last'.key \notin DOMAIN cache
            /\ k \in last'.removed) =>
            since[k].new + 1 >= capacity]_vars

\* C28, amended: with capacity C >= 1, a Put of a new key evicts a key only
\* when that key is the least recently touched of at least C keys in the
\* map, so that C - 1 other keys were put or got after its last touch; and
\* when no other key of the map was put or got since its last touch, the
\* Put that evicts it is at least the C-th Put of a new key since then,
\* whatever GetAlls, failed Gets and Evicts came between.
EvictedAfterEnoughTouches ==
    [][\A k \in DOMAIN cache :
        (capacity >= 1 /\ last'.op = "Put" /\ last'.key \notin DOMAIN cache
            /\ k \in last'.removed) =>
            /\ Len(touched) >= capacity
            /\ touched[Len(touched)] = k
            /\ \A j \in (DOMAIN cache) \ {k} :
                  \E i \in 1 .. Len(touched) - 1 : touched[i] = j
            /\ ~since[k].old => since[k].new + 1 >= capacity]_vars

\* Capacity 3: A, B and C were put and A was got, so that B was the least
\* recently touched; the Put of D, the second Put of a new key since B's,
\* evicted B.
EvictedAfterEnoughTouchesWitness ==
    /\ capacity = 3
    /\ last.op = "Put"
    /\ last.key = "D"
    /\ last.removed = {"B"}
    /\ ListKeys = <<"D", "A", "C">>
    /\ since["A"] = [new |-> 1, old |-> FALSE]
    /\ since["C"] = [new |-> 1, old |-> TRUE]

\* C29 as claimed: for every POST that handlePost accepts with
\* ttl_seconds = n > 0, the ttl handed to Put is n seconds, a positive
\* duration, and the entry expires n seconds after the Put: the conversion
\* to a time.Duration does not wrap around.
PostTTLExact ==
    [][\A req \in ServerPosts :
        (http'.handler = "POST" /\ http'.body = req /\ http'.status = StatusCreated
            /\ req.has_ttl /\ req.ttl_seconds > 0) =>
            /\ last'.op = "Put"
            /\ last'.ttl = req.ttl_seconds * Second
            /\ last'.ttl > 0
            /\ ExpiresAtOf(req.key)' = now + req.ttl_seconds * Second]_vars

\* C30 as claimed: whatever the environment variables and the flags are,
\* the configuration that ReadConfig returns and main passes to NewLRUCache
\* is valid for the cache: DefaultCacheTTL > 0 and CacheSize >= 1, and these
\* are the capacity and the default TTL of the cache that serves.
ConfigValid ==
    Serving =>
        /\ cfg.DefaultCacheTTL > 0
        /\ cfg.CacheSize >= 1
        /\ capacity = cfg.CacheSize
        /\ defaultTTL = cfg.DefaultCacheTTL

====
